---------------------------- MODULE Spec2Model ----------------------------
(***************************************************************************)
(* Tinyships: one carrier ship and five aircraft (src/game_cpp/game.cpp).  *)
(*                                                                         *)
(* Every float of the program is a fixed-point integer here: a value v is  *)
(* stored as the integer nearest to v * SCALE (lengths, speeds, times and  *)
(* angles in radians alike).  Products are rounded to the nearest unit, as *)
(* float products are rounded to the nearest float.  sqrt, cos, sin and    *)
(* atan2 are computed on those integers, never assumed.                    *)
(***************************************************************************)
EXTENDS Integers, Sequences, FiniteSets, TLC

\* fixed-point resolution standing for `float`: 1.0 is SCALE
SCALE == 1000

\* internal resolution of the trigonometric operators: 1.0 is TRIG
TRIG == 10000

-----------------------------------------------------------------------------
\* Arithmetic on fixed-point values

Abs(n) == IF n < 0 THEN -n ELSE n

\* n / d rounded to the nearest integer (d > 0), halves away from zero
RDiv(n, d) == IF n >= 0 THEN (2 * n + d) \div (2 * d)
                        ELSE -((2 * (-n) + d) \div (2 * d))

\* float * float
FMul(a, b) == RDiv(a * b, SCALE)

\* floor of the square root of n >= 0, by bisection on [lo, hi]
RECURSIVE SqrtBetween(_, _, _)
SqrtBetween(n, lo, hi) ==
    IF lo >= hi THEN lo
    ELSE LET mid == (lo + hi + 1) \div 2
         IN  IF mid * mid <= n THEN SqrtBetween(n, mid, hi)
                               ELSE SqrtBetween(n, lo, mid - 1)

\* std::sqrt of an integer n >= 0, rounded to the nearest integer
Sqrt(n) ==
    LET s == SqrtBetween(n, 0, 46340)
    IN  IF n - s * s > s THEN s + 1 ELSE s

\* cos and sin of x in [0, pi/4], x and the results in units of 1/TRIG
CosPoly(x) ==
    LET x2 == RDiv(x * x, TRIG)
        c3 == 417 - RDiv(x2 * 14, TRIG)
        c2 == 5000 - RDiv(x2 * c3, TRIG)
    IN  TRIG - RDiv(x2 * c2, TRIG)

SinPoly(x) ==
    LET x2 == RDiv(x * x, TRIG)
        s3 == 83 - RDiv(x2 * 2, TRIG)
        s2 == 1667 - RDiv(x2 * s3, TRIG)
        s1 == TRIG - RDiv(x2 * s2, TRIG)
    IN  RDiv(x * s1, TRIG)

\* <<cos, sin>> of t in [0, pi/2), units of 1/TRIG
CosSinQuadrant(t) ==
    IF t <= 7854 THEN <<CosPoly(t), SinPoly(t)>>
                 ELSE <<SinPoly(15708 - t), CosPoly(15708 - t)>>

\* <<cos, sin>> of the angle a (radians, fixed-point), results fixed-point
CosSin(a) ==
    LET r  == (a * (TRIG \div SCALE)) % 62832
        q  == r \div 15708
        cs == CosSinQuadrant(r % 15708)
        c  == cs[1]
        s  == cs[2]
        v  == CASE q = 0 -> <<c, s>>
                [] q = 1 -> <<-s, c>>
                [] q = 2 -> <<-c, -s>>
                [] OTHER -> <<s, -c>>
    IN  <<RDiv(v[1], TRIG \div SCALE), RDiv(v[2], TRIG \div SCALE)>>

Cos(a) == CosSin(a)[1]
Sin(a) == CosSin(a)[2]

\* atan of w, |w| <= 0.27, units of 1/TRIG
AtanPoly(w) ==
    LET w2 == RDiv(w * w, TRIG)
        a3 == 2000 - RDiv(w2 * 1429, TRIG)
        a2 == 3333 - RDiv(w2 * a3, TRIG)
        a1 == TRIG - RDiv(w2 * a2, TRIG)
    IN  RDiv(w * a1, TRIG)

\* atan of z in [0, 1], units of 1/TRIG; above 2 - sqrt(3) by
\* atan z = pi/6 + atan((sqrt(3) z - 1) / (sqrt(3) + z))
AtanUnit(z) ==
    IF z <= 2679 THEN AtanPoly(z)
    ELSE 5236 + AtanPoly(RDiv((RDiv(17321 * z, TRIG) - TRIG) * TRIG, 17321 + z))

\* std::atan2(y, x) of fixed-point y, x: radians, fixed-point, in (-pi, pi]
Atan2(y, x) ==
    IF x = 0 /\ y = 0 THEN 0
    ELSE LET ax == Abs(x)
             ay == Abs(y)
             lo == IF ax < ay THEN ax ELSE ay
             hi == IF ax < ay THEN ay ELSE ax
             a0 == AtanUnit(RDiv(lo * TRIG, hi))
             a1 == IF ay > ax THEN 15708 - a0 ELSE a0
             a2 == IF x < 0 THEN 31416 - a1 ELSE a1
             a3 == IF y < 0 THEN -a2 ELSE a2
         IN  RDiv(a3, TRIG \div SCALE)

-----------------------------------------------------------------------------
\* Bounds of the model

\* Spec: calls of update
MaxFrames == 2

\* FlightSpec: calls of update
MaxFlightFrames == 10

\* key events (pressed or released, valid or not) the player produces
MaxKeyEvents == 2

\* left clicks the player produces
MaxLeftClicks == 1

\* right clicks the player produces
MaxRightClicks == 2

\* FlightSpec: calls of game::init
MaxInits == 3

\* the frame time fed to update (fixed-point)
DTs == {2 * SCALE}

\* world positions of the left clicks (fixed-point)
Targets == {[x |-> 3300, y |-> 600]}

\* FleetSpec: right clicks the player produces
MaxFleetClicks == 6

\* SteerSpec: keys the player presses, planes the player launches
MaxSteerKeys == 2
MaxSteerLaunches == 1

\* RefuelSpec: the frame times while plane 0 refuels (fixed-point)
RefuelDTs == {SCALE, 3 * SCALE}

\* KeysSpec: key events the player produces
MaxKeyPresses == 4

\* CycleSpec: the constant frame times of a session (fixed-point)
CycleDTs == {SCALE \div 2, SCALE, 2 * SCALE}

\* CycleSpec: the fixed targets, farther than the hover radius from the ship
CycleTargets == {[x |-> 3300, y |-> 600], [x |-> 10000, y |-> 0]}

\* CycleSpec: flight time, in time-units, above which it is no longer counted
MaxFlightTime == 30

-----------------------------------------------------------------------------
\* Program constants (fixed-point)

SHIP_LINEAR_SPEED == 500
SHIP_ANGULAR_SPEED == 500
AIRCRAFT_LINEAR_SPEED == 2000
AIRCRAFT_ANGULAR_SPEED == 2500
FLIGHT_TIME == 10000
REFUEL_TIME == 3000
PI == 3142

\* Aircraft::init
ACCELERATION == 1000
TAKEOFF_TIME == 2000
HOVER_RADIUS == 1000

\* Aircraft::land: 0.1f
LANDING_DISTANCE == 100

\* Aircraft::hover: errorTolerance.  0.000001f absorbs the rounding of a
\* point computed on the hover circle; on the fixed-point grid that rounding
\* is one unit (the computed distance is 999, 1000 or 1001).
ERROR_TOLERANCE == 1

\* game::KEY_* of the framework's key enumeration
KEY_FORWARD == 0
KEY_BACKWARD == 1
KEY_LEFT == 2
KEY_RIGHT == 3
KEY_COUNT == 4

\* std::array< Aircraft, 5 >
NUM_PLANES == 5
Planes == 0 .. (NUM_PLANES - 1)

-----------------------------------------------------------------------------
\* Vector2

Vector2(vx, vy) == [x |-> vx, y |-> vy]

\* operator + ( Vector2, Vector2 )
VAdd(left, right) == Vector2(left.x + right.x, left.y + right.y)

\* operator - ( Vector2, Vector2 )
VSub(left, right) == Vector2(left.x - right.x, left.y - right.y)

\* operator * ( float, Vector2 )
VScale(left, right) == Vector2(FMul(left, right.x), FMul(left, right.y))

\* Vector2::length
Length(v) == Sqrt(v.x * v.x + v.y * v.y)

\* Vector2( std::cos(angle), std::sin(angle) )
Heading(angle) == Vector2(Cos(angle), Sin(angle))

-----------------------------------------------------------------------------
\* State

VARIABLES
    pc,         \* where the process is: "constructed", "running", "stopped", "aborted"
    ship,       \* game::ship
    planes,     \* game::planes
    scene,      \* what the scene framework holds and was last asked to do
    last,       \* the last call of the public interface and its arguments
    frames,     \* number of update calls so far (not counted in CycleSpec)
    tick,       \* parity of the number of update calls
    keyEvents,  \* number of key events so far
    leftClicks, \* number of left clicks so far
    rightClicks,\* number of right clicks so far
    inits       \* number of game::init calls so far

vars == <<pc, ship, planes, scene, last, frames, tick, keyEvents, leftClicks, rightClicks, inits>>

\* The objects the operations below transform
World == [ship |-> ship, planes |-> planes, scene |-> scene]

AircraftStates == {"IDLE", "TAKEOFF", "FLY", "HOVER", "LAND", "REFUEL"}

\* A mesh pointer is "null", "live" (points to a visual the scene holds) or
\* "dead" (points to a visual already destroyed: a dangling pointer).
MeshValues == {"null", "live", "dead"}

-----------------------------------------------------------------------------
\* The scene framework (scene.hpp), as far as the program uses it.  The scene
\* record holds: shipLive and aircraftLive[i], the number of visuals created
\* for the ship and for plane i and not destroyed; doubleFree, whether a
\* visual was destroyed again through a dead pointer; badPlace, whether a
\* placement was asked through a pointer that is not live; marker, the goal
\* marker; placed, the visuals placed by the current call, in call order.

ShipVisual == [kind |-> "ship", index |-> 0]
AircraftVisual(i) == [kind |-> "aircraft", index |-> i]

\* scene::createAircraftMesh for plane i
CreateAircraftMesh(sc, i) == [sc EXCEPT !.aircraftLive[i] = @ + 1]

\* scene::createShipMesh
CreateShipMesh(sc) == [sc EXCEPT !.shipLive = @ + 1]

\* scene::destroyMesh( mesh ) for the visual `who`: destroying a null mesh
\* does nothing, destroying a dead one is a double free
DestroyMesh(sc, who, mesh) ==
    CASE mesh = "null" -> sc
      [] mesh = "dead" -> [sc EXCEPT !.doubleFree = TRUE]
      [] OTHER -> IF who.kind = "ship"
                  THEN [sc EXCEPT !.shipLive = @ - 1]
                  ELSE [sc EXCEPT !.aircraftLive[who.index] = @ - 1]

\* scene::placeMesh( mesh, x, y, angle ) for the visual `who`
PlaceMesh(sc, who, mesh, x, y, angle) ==
    [sc EXCEPT !.placed = Append(@, who),
               !.badPlace = @ \/ mesh # "live"]

\* scene::placeGoalMarker( x, y )
PlaceGoalMarker(sc, x, y) == [sc EXCEPT !.marker = {Vector2(x, y)}]

\* the world at the start of a call of the public interface: the record of
\* the placements of the previous call is dropped
BeginCall(w) == [w EXCEPT !.scene.placed = <<>>]

-----------------------------------------------------------------------------
\* Aircraft.  Each operation takes the world w and the index i of the plane
\* it is called on, and yields the world after the call.

\* Aircraft::Aircraft and the zero-initialisation of the static game::planes
AircraftConstructed ==
    [mesh |-> "null", position |-> Vector2(0, 0), angle |-> 0,
     acceleration |-> 0, linearSpeed |-> 0,
     takeoffTime |-> 0, flightTime |-> 0, landingTime |-> 0,
     targetPosition |-> Vector2(0, 0), hoverRaduis |-> 0, hoverAngle |-> 0,
     owningShip |-> "null", state |-> "IDLE"]

\* Aircraft::init
AircraftInit(w, i) ==
    [w EXCEPT !.planes[i] =
        [@ EXCEPT !.position = Vector2(0, 0),
                  !.angle = 0,
                  !.acceleration = ACCELERATION,
                  !.linearSpeed = 0,
                  !.takeoffTime = TAKEOFF_TIME,
                  !.flightTime = 0,
                  !.landingTime = 0,
                  !.hoverRaduis = HOVER_RADIUS,
                  !.hoverAngle = 0,
                  !.owningShip = "ship",
                  !.state = "IDLE"]]

\* Aircraft::deinit
AircraftDeinit(w, i) ==
    [w EXCEPT !.scene = DestroyMesh(@, AircraftVisual(i), w.planes[i].mesh),
              !.planes[i].mesh = "null"]

\* Aircraft::setTarget
SetTarget(w, i, position) == [w EXCEPT !.planes[i].targetPosition = position]

\* Aircraft::readyToFly
ReadyToFly(p) == p.state = "IDLE"

\* Aircraft::inFlight
InFlight(p) == p.state # "IDLE" /\ p.state # "REFUEL"

\* Aircraft::launch.  A live visual whose pointer is overwritten stays in the
\* scene (aircraftLive counts it).
Launch(w, i) ==
    LET sc1 == CreateAircraftMesh(w.scene, i)
        pos == w.ship.position
        ang == w.ship.angle
        sc2 == PlaceMesh(sc1, AircraftVisual(i), "live", pos.x, pos.y, ang)
    IN  [w EXCEPT !.scene = sc2,
                  !.planes[i] = [@ EXCEPT !.mesh = "live",
                                          !.position = pos,
                                          !.angle = ang,
                                          !.state = "TAKEOFF"]]

\* Aircraft::takeoff that ends in HOVER
TakeoffToHover(w, i, dt) ==
    LET p     == w.planes[i]
        ang   == w.ship.angle
        speed == p.linearSpeed + w.ship.linearSpeed
    IN  [w EXCEPT !.planes[i] =
            [@ EXCEPT !.state = IF p.flightTime >= p.takeoffTime THEN "HOVER" ELSE @,
                      !.angle = ang,
                      !.position = VAdd(p.position,
                                        VScale(FMul(speed, dt), Heading(ang)))]]

\* Aircraft::takeoff
Takeoff(w, i, dt) ==
    LET p     == w.planes[i]
        ang   == w.ship.angle
        speed == p.linearSpeed + w.ship.linearSpeed
    IN  [w EXCEPT !.planes[i] =
            [@ EXCEPT !.state = IF p.flightTime >= p.takeoffTime THEN "FLY" ELSE @,
                      !.angle = ang,
                      !.position = VAdd(p.position,
                                        VScale(FMul(speed, dt), Heading(ang)))]]

\* Aircraft::fly
Fly(w, i, dt) ==
    LET p == w.planes[i]
        radiusToTarget == Length(VSub(p.targetPosition, p.position))
        ang == Atan2(p.targetPosition.y - p.position.y,
                     p.targetPosition.x - p.position.x)
    IN  IF radiusToTarget <= p.hoverRaduis
        THEN [w EXCEPT !.planes[i] = [@ EXCEPT !.state = "HOVER",
                                               !.hoverAngle = p.angle + PI]]
        ELSE [w EXCEPT !.planes[i] =
                [@ EXCEPT !.angle = ang,
                          !.position = VAdd(p.position,
                                            VScale(FMul(p.linearSpeed, dt), Heading(ang)))]]

\* Aircraft::hover
Hover(w, i, dt) ==
    LET p == w.planes[i]
        radiusToTarget == Length(VSub(p.targetPosition, p.position))
        newHoverAngle == p.hoverAngle + FMul(AIRCRAFT_ANGULAR_SPEED, dt)
        posX == p.targetPosition.x + FMul(Cos(newHoverAngle), p.hoverRaduis)
        posY == p.targetPosition.y + FMul(Sin(newHoverAngle), p.hoverRaduis)
    IN  IF radiusToTarget > p.hoverRaduis + ERROR_TOLERANCE
        THEN [w EXCEPT !.planes[i].state = "FLY"]
        ELSE [w EXCEPT !.planes[i] =
                [@ EXCEPT !.state = IF p.flightTime >= FLIGHT_TIME THEN "LAND" ELSE @,
                          !.angle = p.hoverAngle + RDiv(PI, 2),
                          !.hoverAngle = newHoverAngle,
                          !.position = Vector2(posX, posY)]]

\* Aircraft::land that leaves the visual in the scene
LandKeepsVisual(w, i, dt) ==
    LET p == w.planes[i]
        landingPos == w.ship.position
        landed == Length(VSub(landingPos, p.position)) <= LANDING_DISTANCE
        ang == Atan2(landingPos.y - p.position.y, landingPos.x - p.position.x)
    IN  [w EXCEPT
            !.planes[i] =
                [@ EXCEPT !.state = IF landed THEN "REFUEL" ELSE @,
                          !.landingTime = IF landed THEN p.flightTime ELSE @,
                          !.angle = ang,
                          !.position = VAdd(p.position,
                                            VScale(FMul(p.linearSpeed, dt), Heading(ang)))]]

\* Aircraft::land.  The mesh pointer is not reset after destroyMesh: it is
\* left pointing to the destroyed visual.
Land(w, i, dt) ==
    LET p == w.planes[i]
        landingPos == w.ship.position
        distanceToShip == Length(VSub(landingPos, p.position))
        landed == distanceToShip <= LANDING_DISTANCE
        ang == Atan2(landingPos.y - p.position.y, landingPos.x - p.position.x)
    IN  [w EXCEPT
            !.scene = IF landed THEN DestroyMesh(@, AircraftVisual(i), p.mesh) ELSE @,
            !.planes[i] =
                [@ EXCEPT !.state = IF landed THEN "REFUEL" ELSE @,
                          !.landingTime = IF landed THEN p.flightTime ELSE @,
                          !.mesh = IF landed /\ p.mesh = "live" THEN "dead" ELSE @,
                          !.angle = ang,
                          !.position = VAdd(p.position,
                                            VScale(FMul(p.linearSpeed, dt), Heading(ang)))]]

\* Aircraft::refuel that leaves the timers as they are
RefuelKeepsTimers(w, i, dt) ==
    LET p == w.planes[i]
        newLandingTime == p.landingTime + dt
    IN  IF newLandingTime > p.flightTime + REFUEL_TIME
        THEN [w EXCEPT !.planes[i] = [@ EXCEPT !.state = "IDLE",
                                               !.linearSpeed = 0]]
        ELSE [w EXCEPT !.planes[i].landingTime = newLandingTime]

\* Aircraft::refuel that ends as soon as the refuel time is reached
RefuelAtThreshold(w, i, dt) ==
    LET p == w.planes[i]
        newLandingTime == p.landingTime + dt
    IN  IF newLandingTime >= p.flightTime + REFUEL_TIME
        THEN [w EXCEPT !.planes[i] = [@ EXCEPT !.state = "IDLE",
                                               !.linearSpeed = 0,
                                               !.flightTime = 0,
                                               !.landingTime = 0]]
        ELSE [w EXCEPT !.planes[i].landingTime = newLandingTime]

\* Aircraft::refuel
Refuel(w, i, dt) ==
    LET p == w.planes[i]
        newLandingTime == p.landingTime + dt
    IN  IF newLandingTime > p.flightTime + REFUEL_TIME
        THEN [w EXCEPT !.planes[i] = [@ EXCEPT !.state = "IDLE",
                                               !.linearSpeed = 0,
                                               !.flightTime = 0,
                                               !.landingTime = 0]]
        ELSE [w EXCEPT !.planes[i].landingTime = newLandingTime]

\* Aircraft::simulateFlight without the inFlight test
SimulateFlightAlways(w, i, dt) ==
    LET p == w.planes[i]
        newSpeed == p.linearSpeed + FMul(p.acceleration, dt)
        maxSpeed == AIRCRAFT_LINEAR_SPEED
    IN  [w EXCEPT
            !.planes[i] = [@ EXCEPT !.linearSpeed = IF newSpeed <= maxSpeed
                                                    THEN newSpeed ELSE maxSpeed,
                                    !.flightTime = @ + dt],
            !.scene = PlaceMesh(@, AircraftVisual(i), p.mesh,
                                p.position.x, p.position.y, p.angle)]

\* Aircraft::simulateFlight without the clamp to the maximum speed
SimulateFlightUnclamped(w, i, dt) ==
    LET p == w.planes[i]
    IN  IF ~InFlight(p) THEN w
        ELSE [w EXCEPT
                !.planes[i] = [@ EXCEPT !.linearSpeed = @ + FMul(p.acceleration, dt),
                                        !.flightTime = @ + dt],
                !.scene = PlaceMesh(@, AircraftVisual(i), p.mesh,
                                    p.position.x, p.position.y, p.angle)]

\* Aircraft::simulateFlight
SimulateFlight(w, i, dt) ==
    LET p == w.planes[i]
        newSpeed == p.linearSpeed + FMul(p.acceleration, dt)
        maxSpeed == AIRCRAFT_LINEAR_SPEED
    IN  IF ~InFlight(p) THEN w
        ELSE [w EXCEPT
                !.planes[i] = [@ EXCEPT !.linearSpeed = IF newSpeed <= maxSpeed
                                                        THEN newSpeed ELSE maxSpeed,
                                        !.flightTime = @ + dt],
                !.scene = PlaceMesh(@, AircraftVisual(i), p.mesh,
                                    p.position.x, p.position.y, p.angle)]

\* Aircraft::update: the branch of the current state
StateBranch(w, i, dt) ==
    CASE w.planes[i].state = "TAKEOFF" -> Takeoff(w, i, dt)
      [] w.planes[i].state = "FLY"     -> Fly(w, i, dt)
      [] w.planes[i].state = "HOVER"   -> Hover(w, i, dt)
      [] w.planes[i].state = "LAND"    -> Land(w, i, dt)
      [] w.planes[i].state = "REFUEL"  -> Refuel(w, i, dt)
      [] OTHER -> w

\* Aircraft::update with the flight step before the branch of the state
AircraftUpdateFlightFirst(w, i, dt) == StateBranch(SimulateFlight(w, i, dt), i, dt)

\* Aircraft::update
AircraftUpdate(w, i, dt) == SimulateFlight(StateBranch(w, i, dt), i, dt)

-----------------------------------------------------------------------------
\* Ship

Keys == 0 .. (KEY_COUNT - 1)

\* Ship::Ship and the zero-initialisation of the static game::ship
ShipConstructed ==
    [mesh |-> "null", position |-> Vector2(0, 0), angle |-> 0, linearSpeed |-> 0,
     input |-> [k \in Keys |-> FALSE], planes |-> "null"]

\* Ship::init without the assertion
ShipInitNoAssert(w) == TRUE

\* Ship::init: the assertion
ShipInitAssert(w) == w.ship.mesh = "null"

\* Ship::init after the assertion; linearSpeed is not assigned
ShipInit(w) ==
    [w EXCEPT !.scene = CreateShipMesh(@),
              !.ship = [@ EXCEPT !.mesh = "live",
                                 !.position = Vector2(0, 0),
                                 !.angle = 0,
                                 !.input = [k \in Keys |-> FALSE],
                                 !.planes = "planes"]]

\* Ship::deinit
ShipDeinit(w) ==
    [w EXCEPT !.scene = DestroyMesh(@, ShipVisual, w.ship.mesh),
              !.ship.mesh = "null"]

\* Ship::update that turns the ship whether it moves or not
ShipUpdateTurnsAtRest(w, dt) ==
    LET s == w.ship
        linearSpeed ==
            IF s.input[KEY_FORWARD] THEN SHIP_LINEAR_SPEED
            ELSE IF s.input[KEY_BACKWARD] THEN -SHIP_LINEAR_SPEED
            ELSE 0
        angularSpeed ==
            IF s.input[KEY_LEFT] THEN SHIP_ANGULAR_SPEED
            ELSE IF s.input[KEY_RIGHT] THEN -SHIP_ANGULAR_SPEED
            ELSE 0
        ang == s.angle + FMul(angularSpeed, dt)
        pos == VAdd(s.position, VScale(FMul(linearSpeed, dt), Heading(ang)))
    IN  [w EXCEPT !.ship = [@ EXCEPT !.linearSpeed = linearSpeed,
                                     !.angle = ang,
                                     !.position = pos],
                  !.scene = PlaceMesh(@, ShipVisual, s.mesh, pos.x, pos.y, ang)]

\* Ship::update that tests RIGHT before LEFT
ShipUpdateRightFirst(w, dt) ==
    LET s == w.ship
        linearSpeed ==
            IF s.input[KEY_FORWARD] THEN SHIP_LINEAR_SPEED
            ELSE IF s.input[KEY_BACKWARD] THEN -SHIP_LINEAR_SPEED
            ELSE 0
        angularSpeed ==
            IF s.input[KEY_RIGHT] /\ linearSpeed # 0 THEN -SHIP_ANGULAR_SPEED
            ELSE IF s.input[KEY_LEFT] /\ linearSpeed # 0 THEN SHIP_ANGULAR_SPEED
            ELSE 0
        ang == s.angle + FMul(angularSpeed, dt)
        pos == VAdd(s.position, VScale(FMul(linearSpeed, dt), Heading(ang)))
    IN  [w EXCEPT !.ship = [@ EXCEPT !.linearSpeed = linearSpeed,
                                     !.angle = ang,
                                     !.position = pos],
                  !.scene = PlaceMesh(@, ShipVisual, s.mesh, pos.x, pos.y, ang)]

\* Ship::update
ShipUpdate(w, dt) ==
    LET s == w.ship
        linearSpeed ==
            IF s.input[KEY_FORWARD] THEN SHIP_LINEAR_SPEED
            ELSE IF s.input[KEY_BACKWARD] THEN -SHIP_LINEAR_SPEED
            ELSE 0
        angularSpeed ==
            IF s.input[KEY_LEFT] /\ linearSpeed # 0 THEN SHIP_ANGULAR_SPEED
            ELSE IF s.input[KEY_RIGHT] /\ linearSpeed # 0 THEN -SHIP_ANGULAR_SPEED
            ELSE 0
        ang == s.angle + FMul(angularSpeed, dt)
        pos == VAdd(s.position, VScale(FMul(linearSpeed, dt), Heading(ang)))
    IN  [w EXCEPT !.ship = [@ EXCEPT !.linearSpeed = linearSpeed,
                                     !.angle = ang,
                                     !.position = pos],
                  !.scene = PlaceMesh(@, ShipVisual, s.mesh, pos.x, pos.y, ang)]

\* the assertion with the upper limit off by one
KeyAssertOffByOne(key) == key >= 0 /\ key <= KEY_COUNT

\* Ship::keyPressed / Ship::keyReleased: the assertion
KeyAssert(key) == key >= 0 /\ key < KEY_COUNT

\* Ship::keyPressed after the assertion
ShipKeyPressed(w, key) == [w EXCEPT !.ship.input[key] = TRUE]

\* Ship::keyReleased after the assertion
ShipKeyReleased(w, key) == [w EXCEPT !.ship.input[key] = FALSE]

\* the left-button loop that skips the planes that are not in flight
RECURSIVE SetTargetInFlightFrom(_, _, _)
SetTargetInFlightFrom(w, i, worldPosition) ==
    IF i >= NUM_PLANES THEN w
    ELSE SetTargetInFlightFrom(IF InFlight(w.planes[i])
                               THEN SetTarget(w, i, worldPosition) ELSE w,
                               i + 1, worldPosition)

\* Ship::mouseClicked, left button: the loop over *planes from plane i on
RECURSIVE SetTargetFrom(_, _, _)
SetTargetFrom(w, i, worldPosition) ==
    IF i >= NUM_PLANES THEN w
    ELSE SetTargetFrom(SetTarget(w, i, worldPosition), i + 1, worldPosition)

\* the other-button loop without the break: every ready plane is launched
RECURSIVE LaunchAllReadyFrom(_, _)
LaunchAllReadyFrom(w, i) ==
    IF i >= NUM_PLANES THEN w
    ELSE LaunchAllReadyFrom(IF ReadyToFly(w.planes[i]) THEN Launch(w, i) ELSE w, i + 1)

\* Ship::mouseClicked, other button: the loop over *planes from plane i on,
\* left at the first plane that is ready to fly
RECURSIVE LaunchFirstReadyFrom(_, _)
LaunchFirstReadyFrom(w, i) ==
    IF i >= NUM_PLANES THEN w
    ELSE IF ReadyToFly(w.planes[i]) THEN Launch(w, i)
    ELSE LaunchFirstReadyFrom(w, i + 1)

\* Ship::mouseClicked
ShipMouseClicked(w, worldPosition, isLeftButton) ==
    IF isLeftButton
    THEN SetTargetFrom([w EXCEPT !.scene = PlaceGoalMarker(@, worldPosition.x,
                                                           worldPosition.y)],
                       0, worldPosition)
    ELSE LaunchFirstReadyFrom(w, 0)

-----------------------------------------------------------------------------
\* game public interface

\* game::init: the loop over planes from plane i on
RECURSIVE InitPlanesFrom(_, _)
InitPlanesFrom(w, i) ==
    IF i >= NUM_PLANES THEN w ELSE InitPlanesFrom(AircraftInit(w, i), i + 1)

\* game::init (when the assertion of Ship::init passes)
GameInit(w) == InitPlanesFrom(ShipInit(w), 0)

\* the loop of game::deinit without the inFlight test
RECURSIVE DeinitAllPlanesFrom(_, _)
DeinitAllPlanesFrom(w, i) ==
    IF i >= NUM_PLANES THEN w ELSE DeinitAllPlanesFrom(AircraftDeinit(w, i), i + 1)

\* game::deinit: the loop over planes from plane i on
RECURSIVE DeinitPlanesFrom(_, _)
DeinitPlanesFrom(w, i) ==
    IF i >= NUM_PLANES THEN w
    ELSE DeinitPlanesFrom(IF InFlight(w.planes[i]) THEN AircraftDeinit(w, i) ELSE w,
                          i + 1)

\* game::deinit
GameDeinit(w) == DeinitPlanesFrom(ShipDeinit(w), 0)

\* game::update: the loop over planes from plane i on
RECURSIVE UpdatePlanesFrom(_, _, _)
UpdatePlanesFrom(w, i, dt) ==
    IF i >= NUM_PLANES THEN w
    ELSE UpdatePlanesFrom(AircraftUpdate(w, i, dt), i + 1, dt)

\* game::update with the planes updated before the ship
GameUpdatePlanesFirst(w, dt) == ShipUpdate(UpdatePlanesFrom(w, 0, dt), dt)

\* game::update
GameUpdate(w, dt) == UpdatePlanesFrom(ShipUpdate(w, dt), 0, dt)

-----------------------------------------------------------------------------
\* The process: the framework calls the public interface

NoCall == [op |-> "none", dt |-> 0, key |-> 0, pos |-> Vector2(0, 0), left |-> FALSE]

Call(op) == [NoCall EXCEPT !.op = op]

SetWorld(w) ==
    /\ ship' = w.ship
    /\ planes' = w.planes
    /\ scene' = w.scene

\* process start: the static objects are constructed, nothing is initialised
Init ==
    /\ pc = "constructed"
    /\ ship = ShipConstructed
    /\ planes = [i \in Planes |-> AircraftConstructed]
    /\ scene = [shipLive |-> 0, aircraftLive |-> [i \in Planes |-> 0],
                doubleFree |-> FALSE, badPlace |-> FALSE,
                marker |-> {}, placed |-> <<>>]
    /\ last = NoCall
    /\ frames = 0
    /\ tick = 0
    /\ keyEvents = 0
    /\ leftClicks = 0
    /\ rightClicks = 0
    /\ inits = 0

\* game::init()
DoInit ==
    /\ pc # "aborted"
    /\ inits' = inits + 1
    /\ last' = Call("init")
    /\ IF ShipInitAssert(World)
       THEN /\ pc' = "running"
            /\ SetWorld(GameInit(BeginCall(World)))
       ELSE /\ pc' = "aborted"
            /\ UNCHANGED <<ship, planes, scene>>
    /\ UNCHANGED <<frames, tick, keyEvents, leftClicks, rightClicks>>

\* game::deinit()
DoDeinit ==
    /\ pc = "running"
    /\ pc' = "stopped"
    /\ last' = Call("deinit")
    /\ SetWorld(GameDeinit(BeginCall(World)))
    /\ UNCHANGED <<frames, tick, keyEvents, leftClicks, rightClicks, inits>>

\* game::update( dt )
DoUpdate(dt) ==
    /\ pc = "running"
    /\ frames' = frames + 1
    /\ tick' = 1 - tick
    /\ last' = [Call("update") EXCEPT !.dt = dt]
    /\ SetWorld(GameUpdate(BeginCall(World), dt))
    /\ UNCHANGED <<pc, keyEvents, leftClicks, rightClicks, inits>>

\* game::keyPressed( key )
DoKeyPressed(key) ==
    /\ pc = "running"
    /\ keyEvents' = keyEvents + 1
    /\ last' = [Call("keyPressed") EXCEPT !.key = key]
    /\ IF KeyAssert(key)
       THEN /\ SetWorld(ShipKeyPressed(BeginCall(World), key))
            /\ UNCHANGED pc
       ELSE /\ pc' = "aborted"
            /\ UNCHANGED <<ship, planes, scene>>
    /\ UNCHANGED <<frames, tick, leftClicks, rightClicks, inits>>

\* game::keyReleased( key )
DoKeyReleased(key) ==
    /\ pc = "running"
    /\ keyEvents' = keyEvents + 1
    /\ last' = [Call("keyReleased") EXCEPT !.key = key]
    /\ IF KeyAssert(key)
       THEN /\ SetWorld(ShipKeyReleased(BeginCall(World), key))
            /\ UNCHANGED pc
       ELSE /\ pc' = "aborted"
            /\ UNCHANGED <<ship, planes, scene>>
    /\ UNCHANGED <<frames, tick, leftClicks, rightClicks, inits>>

\* game::mouseClicked( x, y, isLeftButton ), (x, y) given by the world position
\* scene::screenToWorld maps it to
DoMouseClicked(worldPosition, isLeftButton) ==
    /\ pc = "running"
    /\ leftClicks' = IF isLeftButton THEN leftClicks + 1 ELSE leftClicks
    /\ rightClicks' = IF isLeftButton THEN rightClicks ELSE rightClicks + 1
    /\ last' = [Call("mouseClicked") EXCEPT !.pos = worldPosition, !.left = isLeftButton]
    /\ SetWorld(ShipMouseClicked(BeginCall(World), worldPosition, isLeftButton))
    /\ UNCHANGED <<pc, frames, tick, keyEvents, inits>>

-----------------------------------------------------------------------------
\* Spec: one short session with every input of the public interface

Next ==
    \/ pc # "stopped" /\ inits < MaxInits /\ DoInit
    \/ DoDeinit
    \/ \E dt \in DTs : frames < MaxFrames /\ DoUpdate(dt)
    \/ \E key \in -1 .. KEY_COUNT : keyEvents < MaxKeyEvents /\ DoKeyPressed(key)
    \/ \E key \in -1 .. KEY_COUNT : keyEvents < MaxKeyEvents /\ DoKeyReleased(key)
    \/ \E worldPosition \in Targets :
          leftClicks < MaxLeftClicks /\ DoMouseClicked(worldPosition, TRUE)
    \/ rightClicks < MaxRightClicks /\ DoMouseClicked(Vector2(0, 0), FALSE)

Spec == Init /\ [][Next]_vars

\* FlightSpec: long sessions without steering, one after the other

FlightNext ==
    \/ inits < MaxInits /\ DoInit
    \/ DoDeinit
    \/ \E dt \in DTs : frames < MaxFlightFrames /\ DoUpdate(dt)
    \/ \E worldPosition \in Targets :
          leftClicks < MaxLeftClicks /\ DoMouseClicked(worldPosition, TRUE)
    \/ rightClicks < MaxRightClicks /\ DoMouseClicked(Vector2(0, 0), FALSE)

FlightSpec == Init /\ [][FlightNext]_vars

\* FleetSpec: one short session in which the whole fleet is launched

FleetNext ==
    \/ pc = "constructed" /\ DoInit
    \/ \E dt \in DTs : frames < MaxFrames /\ DoUpdate(dt)
    \/ rightClicks < MaxFleetClicks /\ DoMouseClicked(Vector2(0, 0), FALSE)

FleetSpec == Init /\ [][FleetNext]_vars

\* SteerSpec: one long session in which the player steers the ship, forward
\* and to the left, while planes take off, fly and land

SteerNext ==
    \/ pc = "constructed" /\ DoInit
    \/ \E key \in {KEY_FORWARD, KEY_LEFT} :
          keyEvents < MaxSteerKeys /\ ~ship.input[key] /\ DoKeyPressed(key)
    \/ \E dt \in DTs : frames < MaxFlightFrames /\ DoUpdate(dt)
    \/ \E worldPosition \in Targets :
          leftClicks = 0 /\ DoMouseClicked(worldPosition, TRUE)
    \/ rightClicks < MaxSteerLaunches /\ DoMouseClicked(Vector2(0, 0), FALSE)

SteerSpec == Init /\ [][SteerNext]_vars

\* RefuelSpec: one long session in which the frame time varies while plane 0
\* refuels

RefuelNext ==
    \/ pc = "constructed" /\ DoInit
    \/ \E dt \in DTs : frames < MaxFlightFrames /\ DoUpdate(dt)
    \/ \E dt \in RefuelDTs :
          frames < MaxFlightFrames /\ planes[0].state = "REFUEL" /\ DoUpdate(dt)
    \/ \E worldPosition \in Targets :
          leftClicks < MaxLeftClicks /\ DoMouseClicked(worldPosition, TRUE)
    \/ rightClicks < MaxRightClicks /\ DoMouseClicked(Vector2(0, 0), FALSE)

RefuelSpec == Init /\ [][RefuelNext]_vars

\* KeysSpec: one short session in which the player works the four keys

KeysNext ==
    \/ pc = "constructed" /\ DoInit
    \/ \E key \in Keys : keyEvents < MaxKeyPresses /\ DoKeyPressed(key)
    \/ \E key \in Keys : keyEvents < MaxKeyPresses /\ DoKeyReleased(key)
    \/ \E dt \in DTs : frames < MaxFrames /\ DoUpdate(dt)

KeysSpec == Init /\ [][KeysNext]_vars

-----------------------------------------------------------------------------
\* CycleSpec: plane 0 is launched once towards a fixed target and update is
\* called for ever with a constant dt, the ship at rest.

\* No comparison of the program depends on how far flightTime is above
\* FLIGHT_TIME (landingTime is set from it when the plane lands and is only
\* compared with it), so this specification stops counting it at
\* MaxFlightTime: its states are finite.
ForgetFlightTime(w) ==
    [w EXCEPT !.planes = [i \in Planes |->
        [w.planes[i] EXCEPT
            !.flightTime = IF @ > MaxFlightTime * SCALE THEN MaxFlightTime * SCALE ELSE @]]]

\* game::update( dt ) with the dt of the session
CycleUpdate(dt) ==
    /\ pc = "running"
    /\ rightClicks = 1
    /\ last.op = "update" => dt = last.dt
    /\ last' = [Call("update") EXCEPT !.dt = dt]
    /\ SetWorld(ForgetFlightTime(GameUpdate(BeginCall(World), dt)))
    /\ tick' = 1 - tick
    /\ UNCHANGED <<pc, frames, keyEvents, leftClicks, rightClicks, inits>>

\* A frame is run: the steps that flip tick are the calls of update
FrameRuns == pc = "running" /\ rightClicks = 1 /\ tick' = 1 - tick

CycleNext ==
    \/ pc = "constructed" /\ DoInit
    \/ \E worldPosition \in CycleTargets :
          leftClicks = 0 /\ rightClicks = 0 /\ DoMouseClicked(worldPosition, TRUE)
    \/ leftClicks = 1 /\ rightClicks = 0 /\ DoMouseClicked(Vector2(0, 0), FALSE)
    \/ \E dt \in CycleDTs : CycleUpdate(dt)

\* update is called again and again: the framework's frame loop never stops
CycleSpec == Init /\ [][CycleNext]_vars /\ WF_tick(FrameRuns)

-----------------------------------------------------------------------------
\* Properties

Airborne == {"TAKEOFF", "FLY", "HOVER", "LAND"}

\* the call that led to the current state
JustCalled(op) == last.op = op

\* C1: between init and deinit, every plane in flight has a live visual in
\* the scene (exactly one, reached by its mesh pointer), and every IDLE plane
\* has none.
VisualWhileInFlight ==
    pc = "running" =>
        \A i \in Planes :
            /\ InFlight(planes[i]) =>
                  planes[i].mesh = "live" /\ scene.aircraftLive[i] = 1
            /\ planes[i].state = "IDLE" =>
                  planes[i].mesh # "live" /\ scene.aircraftLive[i] = 0

\* C1 witness: one plane is back to IDLE after a whole flight (its pointer is
\* dead) while another is in flight
VisualWitness ==
    /\ pc = "running"
    /\ \E i, j \in Planes :
          /\ planes[i].state = "IDLE" /\ planes[i].mesh = "dead"
          /\ InFlight(planes[j])

\* C3: the speed of a plane in flight is within [0, 2.0], and the update
\* that takes a plane from REFUEL to IDLE leaves its speed at 0.
SpeedClamped ==
    /\ [](\A i \in Planes :
            InFlight(planes[i]) =>
                planes[i].linearSpeed >= 0 /\ planes[i].linearSpeed <= AIRCRAFT_LINEAR_SPEED)
    /\ [][\A i \in Planes :
            (tick' # tick /\ planes[i].state = "REFUEL" /\ planes'[i].state = "IDLE")
                => planes'[i].linearSpeed = 0]_vars

\* C3 witness: an update has just taken plane 0 from REFUEL to IDLE while
\* plane 1 flies at the maximum speed
SpeedWitness ==
    /\ JustCalled("update")
    /\ planes[0].state = "IDLE" /\ planes[0].mesh = "dead" /\ planes[0].linearSpeed = 0
    /\ scene.placed # <<>>
    /\ planes[1].state \in Airborne /\ planes[1].linearSpeed = AIRCRAFT_LINEAR_SPEED

\* C5: a left click at p gives every plane the target p and changes nothing
\* else of the planes, nor the ship.
LeftClickSetsTarget ==
    [][leftClicks' # leftClicks =>
          /\ \A i \in Planes :
                planes'[i] = [planes[i] EXCEPT !.targetPosition = last'.pos]
          /\ ship' = ship]_vars

\* C5 witness: a left click has just retargeted planes in three different
\* states, one of them REFUEL or FLY
LeftClickWitness ==
    /\ JustCalled("mouseClicked") /\ last.left
    /\ \A i \in Planes : planes[i].targetPosition = last.pos
    /\ planes[0].state \in {"FLY", "HOVER", "LAND", "REFUEL"}
    /\ planes[1].state = "TAKEOFF"
    /\ planes[2].state = "IDLE"

\* the observable state right after the first init of a fresh process
FreshShip(s) ==
    /\ s.mesh = "live"
    /\ s.position = Vector2(0, 0)
    /\ s.angle = 0
    /\ \A k \in Keys : ~s.input[k]

FreshAircraft(p) ==
    /\ p.state = "IDLE"
    /\ p.linearSpeed = 0
    /\ p.flightTime = 0
    /\ p.landingTime = 0
    /\ p.mesh # "live"
    /\ p.targetPosition = Vector2(0, 0)

\* C7: after deinit followed by init, the ship and the planes are as after
\* the first init of a fresh process (the target at its default included).
ReinitRestoresFreshState ==
    (JustCalled("init") /\ pc = "running") =>
        FreshShip(ship) /\ \A i \in Planes : FreshAircraft(planes[i])

\* C8: once deinit has completed, no aircraft visual is left in the scene
\* and none was destroyed twice.
DeinitDestroysOnce ==
    pc = "stopped" =>
        /\ \A i \in Planes : scene.aircraftLive[i] = 0
        /\ ~scene.doubleFree

\* C8 witness: deinit has just been called with one plane in REFUEL (its
\* visual destroyed on landing) and another in flight
DeinitWitness ==
    /\ pc = "stopped" /\ JustCalled("deinit")
    /\ \E i, j \in Planes :
          /\ planes[i].state = "REFUEL" /\ planes[i].mesh = "dead"
          /\ InFlight(planes[j]) /\ planes[j].mesh = "null"

\* the steps of the cycle of a plane
CycleSteps ==
    {<<"IDLE", "TAKEOFF">>, <<"TAKEOFF", "FLY">>, <<"FLY", "HOVER">>,
     <<"HOVER", "LAND">>, <<"LAND", "REFUEL">>, <<"REFUEL", "IDLE">>}

\* C2: with a fixed target farther than the hover radius and a constant dt of
\* at most 2.0, the launched plane changes state along the cycle only, and
\* each state of the cycle leads to the next one: TAKEOFF to FLY, FLY to
\* HOVER, HOVER to LAND, LAND to REFUEL, REFUEL to IDLE.
CycleFollowed ==
    /\ [][planes'[0].state # planes[0].state =>
             <<planes[0].state, planes'[0].state>> \in CycleSteps]_vars
    /\ (planes[0].state = "TAKEOFF") ~> (planes[0].state = "FLY")
    /\ (planes[0].state = "FLY") ~> (planes[0].state = "HOVER")
    /\ (planes[0].state = "HOVER") ~> (planes[0].state = "LAND")
    /\ (planes[0].state = "LAND") ~> (planes[0].state = "REFUEL")
    /\ (planes[0].state = "REFUEL") ~> (planes[0].state = "IDLE")

\* the planes ready to fly
Ready == {i \in Planes : ReadyToFly(planes[i])}

\* C4: a click of another button than the left one takes the ready plane of
\* lowest index to TAKEOFF and changes the state of no other plane; with no
\* plane ready it changes no state.  Two such clicks right after init launch
\* plane 0 and plane 1, and three planes stay IDLE.
RightClickLaunchesFirstReady ==
    /\ [][rightClicks' # rightClicks =>
             IF Ready = {}
             THEN \A i \in Planes : planes'[i].state = planes[i].state
             ELSE LET first == CHOOSE i \in Ready : \A j \in Ready : i <= j
                  IN  /\ planes'[first].state = "TAKEOFF"
                      /\ \A j \in Planes \ {first} :
                            planes'[j].state = planes[j].state]_vars
    /\ []((rightClicks = 2 /\ frames = 0) =>
             /\ planes[0].state = "TAKEOFF" /\ planes[1].state = "TAKEOFF"
             /\ \A i \in 2 .. (NUM_PLANES - 1) : planes[i].state = "IDLE")

\* C4 witness: a click has just found no plane ready, the five planes being
\* in flight in more than one state
RightClickWitness ==
    /\ JustCalled("mouseClicked") /\ ~last.left
    /\ rightClicks = NUM_PLANES + 1
    /\ Ready = {}
    /\ planes[0].state = "FLY" /\ planes[4].state = "TAKEOFF"

\* C6: an update made with FORWARD and BACKWARD released leaves the heading
\* and the position of the ship as they were, whatever LEFT and RIGHT are.
ShipTurnsOnlyMoving ==
    [][(tick' # tick /\ ~ship.input[KEY_FORWARD] /\ ~ship.input[KEY_BACKWARD]) =>
          ship'.angle = ship.angle /\ ship'.position = ship.position]_vars

\* C6 witness: an update has just run with LEFT held, FORWARD and BACKWARD
\* released
ShipAtRestWitness ==
    /\ JustCalled("update")
    /\ ship.input[KEY_LEFT]
    /\ ~ship.input[KEY_FORWARD] /\ ~ship.input[KEY_BACKWARD]
    /\ scene.placed[1] = ShipVisual

\* the visuals of the planes in flight among ps, in index order
InFlightVisuals(ps) ==
    LET index == [k \in 1 .. NUM_PLANES |-> k - 1]
        Flying(i) == InFlight(ps[i])
        flying == SelectSeq(index, Flying)
    IN  [k \in 1 .. Len(flying) |-> AircraftVisual(flying[k])]

KeyEventSetsOneFlag ==
    [][keyEvents' # keyEvents =>
          IF last'.key >= 0 /\ last'.key < KEY_COUNT
          THEN /\ ship' = [ship EXCEPT !.input[last'.key] = (last'.op = "keyPressed")]
               /\ planes' = planes
               /\ pc' = pc
          ELSE /\ pc' = "aborted"
               /\ ship' = ship
               /\ planes' = planes]_vars

\* C10 witness: keyPressed( KEY_COUNT ) has just failed while FORWARD is held
KeyEventWitness ==
    /\ pc = "aborted"
    /\ JustCalled("keyPressed") /\ last.key = KEY_COUNT
    /\ ship.input[KEY_FORWARD]
    /\ \A k \in Keys \ {KEY_FORWARD} : ~ship.input[k]

\* C11: init called while the ship is initialised (no deinit since the last
\* init) is fatal and changes nothing; init called at process start or after
\* deinit passes the assertion and the game runs.
InitOnlyWhenDeinitialised ==
    [][inits' # inits =>
          IF ship.mesh # "null"
          THEN pc = "running" /\ pc' = "aborted" /\ ship' = ship /\ planes' = planes
          ELSE pc \in {"constructed", "stopped"} /\ pc' = "running"
               /\ ship'.mesh = "live"]_vars

\* C11 witness: a second init has just failed in a session that followed a
\* deinit, with a plane in flight
InitWitness ==
    /\ pc = "aborted" /\ JustCalled("init")
    /\ ship.mesh = "live"
    /\ inits > 2
    /\ \E i \in Planes : InFlight(planes[i])

\* the changes of state update makes
UpdateEdges ==
    {<<"TAKEOFF", "FLY">>, <<"FLY", "HOVER">>, <<"HOVER", "FLY">>,
     <<"HOVER", "LAND">>, <<"LAND", "REFUEL">>, <<"REFUEL", "IDLE">>}

\* C12: an update changes the state of a plane along one of the edges
\* TAKEOFF->FLY, FLY->HOVER, HOVER->FLY, HOVER->LAND, LAND->REFUEL,
\* REFUEL->IDLE only, and a click changes it from IDLE to TAKEOFF only, the
\* click being a launch (no left click changes a state).
StateChangesAlongEdges ==
    [][\A i \in Planes :
          planes'[i].state # planes[i].state =>
              /\ tick' # tick =>
                    <<planes[i].state, planes'[i].state>> \in UpdateEdges
              /\ rightClicks' # rightClicks =>
                    planes[i].state = "IDLE" /\ planes'[i].state = "TAKEOFF"
              /\ leftClicks' = leftClicks]_vars

\* C12 witness: an update has just sent a hovering plane back to FLY, its
\* target moved by a click
HoverToFlyWitness ==
    /\ JustCalled("update")
    /\ \E i \in Planes :
          /\ planes[i].state = "FLY"
          /\ planes[i].hoverAngle # 0
          /\ Length(VSub(planes[i].targetPosition, planes[i].position))
                > planes[i].hoverRaduis + ERROR_TOLERANCE

\* C13: an update that finds a plane in HOVER with a flight time of at least
\* FLIGHT_TIME leaves it in LAND, also when the target has been moved since
\* the previous update.
HoverTimeoutLands ==
    [][tick' # tick =>
          \A i \in Planes :
              (planes[i].state = "HOVER" /\ planes[i].flightTime >= FLIGHT_TIME)
                  => planes'[i].state = "LAND"]_vars

\* C14: after init, a plane that is not in flight (IDLE or REFUEL) has speed
\* 0 and a plane in flight has a speed within [0, 2.0].
SpeedZeroOnDeck ==
    pc = "running" =>
        \A i \in Planes :
            IF InFlight(planes[i])
            THEN planes[i].linearSpeed >= 0
                 /\ planes[i].linearSpeed <= AIRCRAFT_LINEAR_SPEED
            ELSE planes[i].linearSpeed = 0

\* C15: after init, the mesh pointer of a plane is non-null exactly when the
\* plane is in flight: null in IDLE and REFUEL, also after a whole cycle.
MeshNullOnDeck ==
    pc = "running" =>
        \A i \in Planes : planes[i].mesh # "null" <=> InFlight(planes[i])

\* the time plane i has spent in REFUEL, as the program measures it
Refuelled(ps, i) == ps[i].landingTime - ps[i].flightTime

\* C16: the update that takes a plane to REFUEL starts its refuel time at 0;
\* each update that finds it in REFUEL adds dt to it, leaves the flight time
\* alone, and takes the plane to IDLE exactly when the sum is above
\* REFUEL_TIME; no click changes the state of a plane in REFUEL.
RefuelLastsRefuelTime ==
    [][\A i \in Planes :
          /\ (tick' # tick /\ planes[i].state = "LAND" /\ planes'[i].state = "REFUEL")
                => Refuelled(planes', i) = 0
          /\ (tick' # tick /\ planes[i].state = "REFUEL") =>
                IF Refuelled(planes, i) + last'.dt > REFUEL_TIME
                THEN planes'[i].state = "IDLE"
                ELSE /\ planes'[i].state = "REFUEL"
                     /\ planes'[i].flightTime = planes[i].flightTime
                     /\ Refuelled(planes', i) = Refuelled(planes, i) + last'.dt
          /\ (tick' = tick /\ pc' = "running" /\ planes[i].state = "REFUEL") =>
                /\ planes'[i].state = "REFUEL"
                /\ planes'[i].flightTime = planes[i].flightTime
                /\ planes'[i].landingTime = planes[i].landingTime]_vars

\* C16 witness: an update has just left plane 0 in REFUEL with a refuel time
\* of exactly REFUEL_TIME
RefuelWitness ==
    /\ JustCalled("update")
    /\ planes[0].state = "REFUEL"
    /\ Refuelled(planes, 0) = REFUEL_TIME

\* C17: in an update, a plane that is in flight after the branch of its
\* state gains dt of flight time and its speed becomes min(speed + 1.0*dt,
\* 2.0), the frames that change its state included; a plane that is IDLE or
\* in REFUEL after the branch keeps its flight time and speed (they are set
\* to 0 on REFUEL->IDLE), the frame LAND->REFUEL included.
FlightStepAfterBranch ==
    [][tick' # tick =>
          \A i \in Planes :
              LET newSpeed == planes[i].linearSpeed + FMul(ACCELERATION, last'.dt)
              IN  IF InFlight(planes'[i])
                  THEN /\ planes'[i].flightTime = planes[i].flightTime + last'.dt
                       /\ planes'[i].linearSpeed =
                             IF newSpeed <= AIRCRAFT_LINEAR_SPEED
                             THEN newSpeed ELSE AIRCRAFT_LINEAR_SPEED
                  ELSE IF planes[i].state = "REFUEL" /\ planes'[i].state = "IDLE"
                  THEN planes'[i].flightTime = 0 /\ planes'[i].linearSpeed = 0
                  ELSE /\ planes'[i].flightTime = planes[i].flightTime
                       /\ planes'[i].linearSpeed = planes[i].linearSpeed]_vars

\* C17 witness: an update has just taken plane 0 from LAND to REFUEL, its
\* flight time not advanced past the landing, while plane 1 is in flight
FlightStepWitness ==
    /\ JustCalled("update")
    /\ planes[0].state = "REFUEL"
    /\ planes[0].landingTime = planes[0].flightTime
    /\ planes[0].flightTime > FLIGHT_TIME
    /\ InFlight(planes[1]) /\ planes[1].flightTime > 0

\* C18: in an update the linear speed of the ship becomes +0.5 with FORWARD
\* held (BACKWARD held or not), -0.5 with BACKWARD held and FORWARD not, 0
\* otherwise; when it is not 0 the ship turns by +0.5*dt with LEFT held
\* (RIGHT held or not), by -0.5*dt with RIGHT held and LEFT not, and not
\* otherwise.
ShipSpeedsFromKeys ==
    [][tick' # tick =>
          LET turn == ship'.angle - ship.angle
          IN  /\ ship.input[KEY_FORWARD] => ship'.linearSpeed = SHIP_LINEAR_SPEED
              /\ (~ship.input[KEY_FORWARD] /\ ship.input[KEY_BACKWARD])
                    => ship'.linearSpeed = -SHIP_LINEAR_SPEED
              /\ (~ship.input[KEY_FORWARD] /\ ~ship.input[KEY_BACKWARD])
                    => ship'.linearSpeed = 0
              /\ ship'.linearSpeed # 0 =>
                    /\ ship.input[KEY_LEFT]
                          => turn = FMul(SHIP_ANGULAR_SPEED, last'.dt)
                    /\ (~ship.input[KEY_LEFT] /\ ship.input[KEY_RIGHT])
                          => turn = -FMul(SHIP_ANGULAR_SPEED, last'.dt)
                    /\ (~ship.input[KEY_LEFT] /\ ~ship.input[KEY_RIGHT])
                          => turn = 0]_vars

\* C18 witness: an update has just run with the four keys held: the ship
\* moves forward and has turned to the left
AllKeysWitness ==
    /\ JustCalled("update")
    /\ \A k \in Keys : ship.input[k]
    /\ ship.linearSpeed = SHIP_LINEAR_SPEED
    /\ ship.angle = FMul(SHIP_ANGULAR_SPEED, last.dt)

\* C19: once init has been called, a plane in IDLE has flight time 0,
\* landing time 0 and speed 0; hence each launch, the first and the ones
\* after a refuel, enters TAKEOFF with flight time 0, at the position and
\* with the heading the ship has at the click.
IdleIsReset ==
    /\ [](pc # "constructed" =>
            \A i \in Planes :
                planes[i].state = "IDLE" =>
                    /\ planes[i].flightTime = 0
                    /\ planes[i].landingTime = 0
                    /\ planes[i].linearSpeed = 0)
    /\ [][rightClicks' # rightClicks =>
             \A i \in Planes :
                 (planes[i].state = "IDLE" /\ planes'[i].state = "TAKEOFF") =>
                     /\ planes'[i].flightTime = 0
                     /\ planes'[i].position = ship.position
                     /\ planes'[i].angle = ship.angle]_vars

\* C19 witness: a click has just launched plane 0 again, after a whole cycle
\* that left it away from the ship
RelaunchWitness ==
    /\ JustCalled("mouseClicked") /\ ~last.left
    /\ rightClicks = 2
    /\ planes[0].state = "TAKEOFF" /\ planes[0].flightTime = 0
    /\ planes[0].hoverAngle # 0
    /\ planes[1].state = "IDLE"

\* C20: between init and deinit no visual is placed through a pointer that
\* is null or points to a destroyed visual, and an update places no visual
\* for a plane it leaves in REFUEL or IDLE, the update in which the plane
\* lands included.
PlacedOnlyWhileLive ==
    /\ [](pc = "running" => ~scene.badPlace)
    /\ [][tick' # tick =>
             \A i \in Planes :
                 ~InFlight(planes'[i]) =>
                     \A k \in 1 .. Len(scene'.placed) :
                         scene'.placed[k] # AircraftVisual(i)]_vars

\* C20 witness: an update has just landed plane 0 and destroyed its visual,
\* and placed the ship and plane 1 only
PlacedWitness ==
    /\ JustCalled("update")
    /\ planes[0].state = "REFUEL" /\ planes[0].mesh = "dead"
    /\ planes[0].landingTime = planes[0].flightTime
    /\ scene.aircraftLive[0] = 0
    /\ scene.placed = <<ShipVisual, AircraftVisual(1)>>

=============================================================================
